---- MODULE Spec2Model ----
(***************************************************************************)
(* Model of maliput_geopackage's topology construction.                    *)
(*                                                                         *)
(* GeoPackageManager::GeoPackageManager (geopackage_manager.cc) turns the  *)
(* raw tables held by the parser (junctions, segments, lane boundaries,    *)
(* lanes, branch point lanes, adjacent lanes) into junctions_ and          *)
(* connections_.  The constructor is modelled phase by phase; the position *)
(* inside the constructor is pc.  Ids are small integers (their order is   *)
(* the order of the id strings), polylines are sequences of point labels.  *)
(* The iteration order of every std::unordered_map is a nondeterministic   *)
(* choice.                                                                 *)
(***************************************************************************)
EXTENDS Integers, Sequences, FiniteSets, TLC

VARIABLES
    gpkg_junctions,       \* parser_.GetJunctions(): set of junction ids
    gpkg_segments,        \* parser_.GetSegments(): segment id -> [junction_id]
    gpkg_lanes,           \* parser_.GetLanes(): lane id -> GPKGLane
    gpkg_boundaries,      \* parser_.GetLaneBoundaries(): boundary id -> geometry
    gpkg_branch_points,   \* parser_.GetBranchPointLanes(): bp id -> Seq(GPKGBranchPointLane)
    gpkg_adjacent_lanes,  \* parser_.GetAdjacentLanes(): lane id -> Seq(GPKGAdjacentLane)
    lanes,                \* local map lane id -> Lane
    bp_done,              \* branch points the loop of line 97 has visited
    segment_lanes,        \* local map segment id -> Seq(Lane)
    junctions_,           \* member junctions_: junction id -> Junction
    connections_,         \* member connections_: Seq(Connection)
    reorder_todo,         \* parser: segments the loop of line 285 has not visited
    reorder_seg,          \* parser: <<junction, segment>> being reordered, or <<>>
    current,              \* parser: id of the lane *current, nullopt for nullptr
    ordered_lanes,        \* parser: the local vector ordered_lanes
    blob,                 \* parser: the geometry blob of the lane_boundaries row
    decoded,              \* parser: what ParseGeopackageGeometry returned for it
    database,             \* the file at gpkg_file_path
    helpers,              \* which definition of SqliteStatement the build uses
    db_,                  \* SqliteDatabase::db_: "null", "open" or "closed"
    stmt_,                \* SqliteStatement::stmt_: "null", "prepared" or "finalized"
    sqlite,               \* the library: live handles and statements, calls, result
    query,                \* index in Queries of the statement of the current block
    step_log,             \* the calls of Step() on the current statement
    column,               \* the last column read with GetColumnText
    pc                    \* position inside the constructor

vars == <<gpkg_junctions, gpkg_segments, gpkg_lanes, gpkg_boundaries,
          gpkg_branch_points, gpkg_adjacent_lanes, lanes, bp_done,
          segment_lanes, junctions_, connections_,
          reorder_todo, reorder_seg, current, ordered_lanes, blob, decoded,
          database, helpers, db_, stmt_, sqlite, query, step_log, column, pc>>

\* The locals of the lane reordering of GeoPackageParser.
walk == <<reorder_todo, reorder_seg, current, ordered_lanes>>

\* The blob of a lane boundary and its decoding.
geom == <<blob, decoded>>

inputs == <<gpkg_junctions, gpkg_segments, gpkg_lanes, gpkg_boundaries,
            gpkg_branch_points, gpkg_adjacent_lanes>>

\* The database and the handles of the parser.
sql == <<database, helpers, db_, stmt_, sqlite, query, step_log, column>>

(***************************************************************************)
(* Bounds of the explored inputs.                                          *)
(***************************************************************************)
MaxAdjRows == 4
MaxBPRows == 3
MaxPoints == 3
MaxRows == 2

(***************************************************************************)
(* Generic helpers.                                                        *)
(***************************************************************************)
\* std::nullopt of the optional left_lane_id / right_lane_id; no lane has id 0.
nullopt == 0

EmptyMap == [x \in {} |-> x]

Range(s) == {s[i] : i \in 1..Len(s)}

\* All enumeration orders of a hash container holding the keys S.
Perms(S) == {p \in [1..Cardinality(S) -> S] : \A i, j \in 1..Cardinality(S) : p[i] = p[j] => i = j}

\* All sequences over S of length at most n.
SeqsUpTo(S, n) == UNION {[1..k -> S] : k \in 0..n}

\* std::reverse
Reverse(s) == [i \in 1..Len(s) |-> s[Len(s) + 1 - i]]

(***************************************************************************)
(* Lane construction (geopackage_manager.cc, lines 61-94).                 *)
(***************************************************************************)
\* The lookup of get_geometry fails: "Missing boundary".
MissingBoundary(boundary_id) == boundary_id \notin DOMAIN gpkg_boundaries

\* A lookup that ignores the inverted flag.
get_geometry_never_reversed(boundary_id, inverted) == gpkg_boundaries[boundary_id]

\* get_geometry: a copy of the raw geometry, reversed when inverted.
get_geometry(boundary_id, inverted) ==
    LET points == gpkg_boundaries[boundary_id]
    IN  IF inverted THEN Reverse(points) ELSE points

\* The loop of lines 84-89 for one side: the last row of that side wins,
\* rows of any other side are skipped.
AdjacentLaneId(lane_id, side) ==
    IF lane_id \notin DOMAIN gpkg_adjacent_lanes THEN nullopt
    ELSE LET rows == gpkg_adjacent_lanes[lane_id]
             hits == {i \in 1..Len(rows) : rows[i].side = side}
         IN  IF hits = {} THEN nullopt
             ELSE rows[CHOOSE i \in hits : \A j \in hits : j <= i].adjacent_lane_id

\* Line 93: the Lane with empty predecessors and successors.
BuildLane(lane_id) ==
    LET gpkg_lane == gpkg_lanes[lane_id]
    IN  [id |-> lane_id,
         left_boundary |-> get_geometry(gpkg_lane.left_boundary_id, gpkg_lane.left_boundary_inverted),
         right_boundary |-> get_geometry(gpkg_lane.right_boundary_id, gpkg_lane.right_boundary_inverted),
         left_lane_id |-> AdjacentLaneId(lane_id, "left"),
         right_lane_id |-> AdjacentLaneId(lane_id, "right"),
         predecessors |-> EmptyMap,
         successors |-> EmptyMap]

(***************************************************************************)
(* Branch points (lines 97-129).                                           *)
(***************************************************************************)
\* StrToLaneEndWhich (lines 195-199); "throw" stands for the runtime_error.
StrToLaneEndWhich(s) ==
    IF s = "start" THEN "kStart" ELSE IF s = "finish" THEN "kFinish" ELSE "throw"

\* std::unordered_map::emplace: nothing happens when the key is present.
Emplace(m, k, v) ==
    IF k \in DOMAIN m THEN m
    ELSE [x \in DOMAIN m \cup {k} |-> IF x = k THEN v ELSE m[x]]

\* The rows of a branch point whatever their side.
SideRowsAnySide(bp_lanes, side) == bp_lanes

\* Lines 98-106: the rows of one side, in row order.
SideRows(bp_lanes, side) == SelectSeq(bp_lanes, LAMBDA bpl : bpl.side = side)

\* The (la, lb) pairs in the order of the nested loops of lines 109-110.
SidePairs(bp_lanes) ==
    LET side_a == SideRows(bp_lanes, "a")
        side_b == SideRows(bp_lanes, "b")
    IN  [k \in 1..(Len(side_a) * Len(side_b)) |->
            <<side_a[((k - 1) \div Len(side_b)) + 1], side_b[((k - 1) % Len(side_b)) + 1]>>]

\* One pass of the loop body throws: a bad lane_end, or lanes.at on a lane
\* id that is no lane.
PairThrows(ls, la, lb) ==
    \/ StrToLaneEndWhich(la.lane_end) = "throw"
    \/ StrToLaneEndWhich(lb.lane_end) = "throw"
    \/ la.lane_id \notin DOMAIN ls
    \/ lb.lane_id \notin DOMAIN ls

\* Lines 114-119 and 121-126: the update of one lane by its peer.
UpdateLane(ls, owner, own_end, peer, peer_end) ==
    LET end == [lane_id |-> peer.lane_id, end |-> StrToLaneEndWhich(peer_end)]
    IN  IF StrToLaneEndWhich(own_end) = "kStart"
        THEN [ls EXCEPT ![owner].predecessors = Emplace(@, peer.lane_id, end)]
        ELSE [ls EXCEPT ![owner].successors = Emplace(@, peer.lane_id, end)]

\* Lines 111-126 for one pair.
ConnectPair(ls, la, lb) ==
    LET after_a == UpdateLane(ls, la.lane_id, la.lane_end, lb, lb.lane_end)
    IN  UpdateLane(after_a, lb.lane_id, lb.lane_end, la, la.lane_end)

\* Lines 109-128: all pairs from the i-th on; ok is FALSE when a pass throws.
RECURSIVE ConnectPairs(_, _, _)
ConnectPairs(ls, pairs, i) ==
    IF i > Len(pairs) THEN [ok |-> TRUE, lanes |-> ls]
    ELSE IF PairThrows(ls, pairs[i][1], pairs[i][2]) THEN [ok |-> FALSE, lanes |-> ls]
    ELSE ConnectPairs(ConnectPair(ls, pairs[i][1], pairs[i][2]), pairs, i + 1)

(***************************************************************************)
(* SortLanes (lines 201-266).  A vector of lanes is a sequence; the C++    *)
(* index i is the TLA+ index i + 1.                                        *)
(***************************************************************************)
\* Lines 204-207: id -> index of the lane with that id.
IdToIndex(ls) ==
    [id \in {ls[i].id : i \in 1..Len(ls)} |->
        CHOOSE i \in 1..Len(ls) : ls[i].id = id /\ \A j \in 1..Len(ls) : ls[j].id = id => j <= i]

\* Lines 213-218.
RightNeighborInSegment(ls, i) ==
    /\ ls[i].right_lane_id # nullopt
    /\ ls[i].right_lane_id \in DOMAIN IdToIndex(ls)

\* Lines 210-228: the start candidates in index order, or the first lane
\* when there is none.
StartIndices(ls) ==
    LET candidates == SelectSeq([i \in 1..Len(ls) |-> i],
                                LAMBDA i : ~RightNeighborInSegment(ls, i))
    IN  IF candidates = <<>> /\ ls # <<>> THEN <<1>> ELSE candidates

\* Lines 236-255: one walk along left_lane_id from current_idx.
RECURSIVE Walk(_, _, _, _)
Walk(ls, current_idx, moved, sorted_lanes) ==
    IF moved[current_idx] THEN [moved |-> moved, sorted_lanes |-> sorted_lanes]
    ELSE LET moved2 == [moved EXCEPT ![current_idx] = TRUE]
             sorted2 == Append(sorted_lanes, ls[current_idx])
             current_lane == ls[current_idx]
         IN  IF current_lane.left_lane_id # nullopt
                  /\ current_lane.left_lane_id \in DOMAIN IdToIndex(ls)
             THEN Walk(ls, IdToIndex(ls)[current_lane.left_lane_id], moved2, sorted2)
             ELSE [moved |-> moved2, sorted_lanes |-> sorted2]

\* Lines 234-256: the walks from every start index from the k-th on.
RECURSIVE WalkFrom(_, _, _, _, _)
WalkFrom(ls, start_indices, k, moved, sorted_lanes) ==
    IF k > Len(start_indices) THEN [moved |-> moved, sorted_lanes |-> sorted_lanes]
    ELSE LET w == Walk(ls, start_indices[k], moved, sorted_lanes)
         IN  WalkFrom(ls, start_indices, k + 1, w.moved, w.sorted_lanes)

\* Lines 258-263: the lanes no walk reached, in index order.
Remaining(ls, moved) ==
    SelectSeq([i \in 1..Len(ls) |-> i], LAMBDA i : ~moved[i])

\* SortLanes without the final loop of lines 258-263.
SortLanesNoAppend(ls) ==
    IF ls = <<>> THEN ls
    ELSE WalkFrom(ls, StartIndices(ls), 1, [i \in 1..Len(ls) |-> FALSE], <<>>).sorted_lanes

\* SortLanes.
SortLanes(ls) ==
    IF ls = <<>> THEN ls
    ELSE LET w == WalkFrom(ls, StartIndices(ls), 1, [i \in 1..Len(ls) |-> FALSE], <<>>)
             rest == Remaining(ls, w.moved)
         IN  w.sorted_lanes \o [k \in 1..Len(rest) |-> ls[rest[k]]]

(***************************************************************************)
(* Connections (lines 160-181).                                            *)
(***************************************************************************)
\* The order of enum LaneEnd::Which: kStart before kFinish.
WhichBefore(a, b) == a = "kStart" /\ b = "kFinish"

\* The comparator of std::sort (lines 175-180).
ConnectionLess(a, b) ==
    IF a.from.lane_id # b.from.lane_id THEN a.from.lane_id < b.from.lane_id
    ELSE IF a.from.end # b.from.end THEN WhichBefore(a.from.end, b.from.end)
    ELSE IF a.to.lane_id # b.to.lane_id THEN a.to.lane_id < b.to.lane_id
    ELSE WhichBefore(a.to.end, b.to.end)

\* Insertion of c into a sequence sorted by ConnectionLess.
Insert(sorted, c) ==
    LET before == SelectSeq(sorted, LAMBDA x : ~ConnectionLess(c, x))
        after == SelectSeq(sorted, LAMBDA x : ConnectionLess(c, x))
    IN  before \o <<c>> \o after

\* std::sort with ConnectionLess: the sorted arrangement of cs.
RECURSIVE SortConnections(_)
SortConnections(cs) ==
    IF cs = <<>> THEN <<>>
    ELSE Insert(SortConnections(SubSeq(cs, 1, Len(cs) - 1)), cs[Len(cs)])

\* No erasure at all.
UniqueKeepsAll(cs) == cs

\* std::unique followed by erase: of a run of equal neighbours the first stays.
Unique(cs) ==
    LET keep == SelectSeq([i \in 1..Len(cs) |-> i], LAMBDA i : i = 1 \/ cs[i] # cs[i - 1])
    IN  [k \in 1..Len(keep) |-> cs[keep[k]]]

\* Only the loop over the predecessors.
LaneConnectionsPredecessorsOnly(lane, pred_order, succ_order) ==
    [k \in 1..Len(pred_order) |->
        [from |-> lane.predecessors[pred_order[k]], to |-> [lane_id |-> lane.id, end |-> "kStart"]]]

\* Lines 164-169: the connections of one lane; pred_order and succ_order
\* are the enumeration orders of its two maps.
LaneConnections(lane, pred_order, succ_order) ==
    [k \in 1..Len(pred_order) |->
        [from |-> lane.predecessors[pred_order[k]], to |-> [lane_id |-> lane.id, end |-> "kStart"]]]
    \o
    [k \in 1..Len(succ_order) |->
        [from |-> [lane_id |-> lane.id, end |-> "kFinish"], to |-> lane.successors[succ_order[k]]]]

\* All concatenations that take one sequence from each set of sets_seq, in order.
RECURSIVE Concats(_)
Concats(sets_seq) ==
    IF sets_seq = <<>> THEN {<<>>}
    ELSE {head \o tail : head \in sets_seq[1], tail \in Concats(Tail(sets_seq))}

\* Lines 163-170 for the lanes of one segment, for every enumeration order
\* of the predecessor and successor maps.
SegmentConnections(segment) ==
    Concats([k \in 1..Len(segment.lanes) |->
        {LaneConnections(segment.lanes[k], po, so) :
            po \in Perms(DOMAIN segment.lanes[k].predecessors),
            so \in Perms(DOMAIN segment.lanes[k].successors)}])

\* Lines 162-171 for one junction, for every enumeration order of its segments.
JunctionConnections(junction) ==
    UNION {Concats([k \in 1..Len(so) |-> SegmentConnections(junction.segments[so[k]])]) :
            so \in Perms(DOMAIN junction.segments)}

\* Lines 161-172: every list the loops can build.
PopulatedConnections(js) ==
    UNION {Concats([k \in 1..Len(jo) |-> JunctionConnections(js[jo[k]])]) :
            jo \in Perms(DOMAIN js)}

(***************************************************************************)
(* The inputs explored.  There are three lanes; a reference to lane 4,     *)
(* boundary 3, segment 3 or junction 3 dangles.                            *)
(***************************************************************************)
LaneIds == {1, 2, 3}
JunctionIds == {1, 2}
SegmentIds == {1, 2}
BoundaryIds == {1, 2}
BranchPointIds == {1, 2}
BranchPointLaneIds == {1, 2}
Points == {1, 2}

BaseBoundaries == [b \in BoundaryIds |-> IF b = 1 THEN <<1, 2>> ELSE <<2, 2, 1>>]

BaseLane(segment_id) ==
    [segment_id |-> segment_id,
     left_boundary_id |-> 1, left_boundary_inverted |-> FALSE,
     right_boundary_id |-> 2, right_boundary_inverted |-> FALSE]

BaseSegments == [s \in SegmentIds |-> [junction_id |-> 1]]

\* The rows of view_adjacent_lanes as slots (lane, side) with a target each.
AdjacencyTables ==
    LET slots == LaneIds \X {"left", "right"}
    IN  UNION {
          {[l \in {sl[1] : sl \in S} |->
               SelectSeq(<<[adjacent_lane_id |-> IF <<l, "left">> \in S THEN t[<<l, "left">>] ELSE nullopt,
                            side |-> "left"],
                           [adjacent_lane_id |-> IF <<l, "right">> \in S THEN t[<<l, "right">>] ELSE nullopt,
                            side |-> "right"]>>,
                         LAMBDA row : <<l, row.side>> \in S)] : t \in [S -> LaneIds]}
          : S \in {S \in SUBSET slots : Cardinality(S) <= MaxAdjRows}}

\* The well-formed rows of branch_point_lanes.
BranchPointRows ==
    [lane_id : BranchPointLaneIds, side : {"a", "b"}, lane_end : {"start", "finish"}]

\* Branch point tables with at most MaxBPRows distinct rows in all, the rows
\* of one branch point in any order.
BranchPointTables ==
    LET row_sets == {Range(q) : q \in SeqsUpTo(BranchPointIds \X BranchPointRows, MaxBPRows)}
        RowsOf(R, bp) == {r[2] : r \in {q \in R : q[1] = bp}}
        Used(R) == {r[1] : r \in R}
    IN  UNION {
          {f \in [Used(R) -> UNION {Perms(RowsOf(R, bp)) : bp \in Used(R)}] :
              \A bp \in Used(R) : f[bp] \in Perms(RowsOf(R, bp))}
          : R \in row_sets}

\* Rows the schema does not allow: an unknown lane, a lane_end or a side
\* that is not one of the two enumerated strings.
MalformedRows ==
    {[lane_id |-> 4, side |-> "b", lane_end |-> "start"],
     [lane_id |-> 2, side |-> "b", lane_end |-> "Finish"],
     [lane_id |-> 2, side |-> "a", lane_end |-> "end"],
     [lane_id |-> 2, side |-> "c", lane_end |-> "start"],
     [lane_id |-> 4, side |-> "a", lane_end |-> "finish"]}

(***************************************************************************)
(* Initial states: the parser has filled its tables and the constructor    *)
(* body is about to run.  Each disjunct varies one table over its bounded  *)
(* universe and keeps the others at a base value.                          *)
(***************************************************************************)
Locals ==
    /\ lanes = EmptyMap
    /\ bp_done = {}
    /\ segment_lanes = EmptyMap
    /\ junctions_ = EmptyMap
    /\ connections_ = <<>>
    /\ reorder_todo = {}
    /\ reorder_seg = <<>>
    /\ current = nullopt
    /\ ordered_lanes = <<>>

\* Adjacency varies; the last lane may sit in another segment.
InitAdjacency ==
    /\ gpkg_junctions = {1}
    /\ gpkg_segments = BaseSegments
    /\ gpkg_boundaries = BaseBoundaries
    /\ \E other \in BOOLEAN :
          gpkg_lanes = [l \in LaneIds |-> BaseLane(IF other /\ l = 3 THEN 2 ELSE 1)]
    /\ gpkg_adjacent_lanes \in AdjacencyTables
    /\ gpkg_branch_points = EmptyMap

\* Branch point rows vary.
InitBranchPoints ==
    /\ gpkg_junctions = {1}
    /\ gpkg_segments = BaseSegments
    /\ gpkg_boundaries = BaseBoundaries
    /\ gpkg_lanes = [l \in LaneIds |-> BaseLane(1)]
    /\ gpkg_adjacent_lanes = EmptyMap
    /\ gpkg_branch_points \in BranchPointTables

\* Two branch points of one pair each: the same pairing can be declared twice.
InitTwoBranchPoints ==
    /\ gpkg_junctions = {1}
    /\ gpkg_segments = BaseSegments
    /\ gpkg_boundaries = BaseBoundaries
    /\ gpkg_lanes = [l \in LaneIds |-> BaseLane(1)]
    /\ gpkg_adjacent_lanes = EmptyMap
    /\ \E pairs \in [BranchPointIds ->
                        {<<la, lb>> : la \in {r \in BranchPointRows : r.side = "a"},
                                      lb \in {r \in BranchPointRows : r.side = "b"}}] :
          gpkg_branch_points = pairs

\* One malformed row next to a well-formed pair.
InitMalformed ==
    /\ gpkg_junctions = {1}
    /\ gpkg_segments = BaseSegments
    /\ gpkg_boundaries = BaseBoundaries
    /\ gpkg_lanes = [l \in LaneIds |-> BaseLane(1)]
    /\ gpkg_adjacent_lanes \in
          {EmptyMap, [l \in {1} |-> <<[adjacent_lane_id |-> 2, side |-> "center"]>>]}
    /\ \E bad \in MalformedRows, good \in SUBSET {1, 2} :
          \E p \in Perms(good \cup {3}) :
              LET rows == <<[lane_id |-> 1, side |-> "a", lane_end |-> "finish"],
                            [lane_id |-> 1, side |-> "b", lane_end |-> "start"],
                            bad>>
              IN  gpkg_branch_points = [bp \in {1} |-> [k \in DOMAIN p |-> rows[p[k]]]]

\* Boundary geometry, boundary references and inversion flags vary.
InitGeometry ==
    /\ gpkg_junctions = {1}
    /\ gpkg_segments = BaseSegments
    /\ \E g \in SeqsUpTo(Points, MaxPoints) :
          gpkg_boundaries = [b \in BoundaryIds |-> IF b = 1 THEN g ELSE <<2, 2, 1>>]
    /\ \E li, ri, li2 \in BOOLEAN, rb \in BoundaryIds \cup {3} :
          gpkg_lanes = [l \in LaneIds |->
              IF l = 1 THEN [segment_id |-> 1,
                             left_boundary_id |-> 1, left_boundary_inverted |-> li,
                             right_boundary_id |-> rb, right_boundary_inverted |-> ri]
              ELSE IF l = 2 THEN [segment_id |-> 1,
                             left_boundary_id |-> 2, left_boundary_inverted |-> FALSE,
                             right_boundary_id |-> 1, right_boundary_inverted |-> li2]
              ELSE BaseLane(1)]
    /\ gpkg_adjacent_lanes = EmptyMap
    /\ gpkg_branch_points = EmptyMap

\* Junctions, segments and the segment of every lane vary.
InitHierarchy ==
    /\ gpkg_junctions \in SUBSET JunctionIds
    /\ \E S \in SUBSET SegmentIds : gpkg_segments \in [S -> [junction_id : JunctionIds \cup {3}]]
    /\ gpkg_boundaries = BaseBoundaries
    /\ \E seg \in [LaneIds -> SegmentIds \cup {3}] : gpkg_lanes = [l \in LaneIds |-> BaseLane(seg[l])]
    /\ gpkg_adjacent_lanes = EmptyMap
    /\ gpkg_branch_points = [bp \in {1} |-> <<[lane_id |-> 1, side |-> "a", lane_end |-> "finish"],
                                              [lane_id |-> 2, side |-> "b", lane_end |-> "start"]>>]

\* A lane end of lane 1 that meets both ends of lane 2 at one branch point.
InitBothEnds ==
    /\ gpkg_junctions = {1}
    /\ gpkg_segments = BaseSegments
    /\ gpkg_boundaries = BaseBoundaries
    /\ gpkg_lanes = [l \in LaneIds |-> BaseLane(1)]
    /\ gpkg_adjacent_lanes = EmptyMap
    /\ \E e \in {"start", "finish"}, first \in {"start", "finish"} :
          gpkg_branch_points =
              [bp \in {1} |-> <<[lane_id |-> 1, side |-> "a", lane_end |-> e],
                                [lane_id |-> 2, side |-> "b", lane_end |-> first],
                                [lane_id |-> 2, side |-> "b",
                                 lane_end |-> IF first = "start" THEN "finish" ELSE "start"]>>]

\* The tables a construction can start from.
Tables ==
    \/ InitBothEnds
    \/ InitAdjacency
    \/ InitBranchPoints
    \/ InitTwoBranchPoints
    \/ InitMalformed
    \/ InitGeometry
    \/ InitHierarchy

\* No blob is being parsed.
NotDecoded == [ok |-> FALSE, wkb_at |-> 0, points |-> <<>>]

NoBlob == blob = <<>> /\ decoded = NotDecoded

(***************************************************************************)
(* SQLite as the constructor of GeoPackageParser uses it: the database     *)
(* file, the library's handles and the two RAII wrappers.                  *)
(***************************************************************************)
\* The tables and columns of a GeoPackage of this schema.
Schema ==
    [maliput_metadata |-> {"key", "value"},
     junctions |-> {"junction_id", "name"},
     segments |-> {"segment_id", "junction_id", "name"},
     lane_boundaries |-> {"boundary_id", "geometry"},
     lanes |-> {"lane_id", "segment_id", "lane_type", "direction", "left_boundary_id",
                "left_boundary_inverted", "right_boundary_id", "right_boundary_inverted"},
     branch_point_lanes |-> {"branch_point_id", "lane_id", "side", "lane_end"},
     view_adjacent_lanes |-> {"lane_id", "adjacent_lane_id", "side"}]

\* A table <<t>> or a column <<t, c>> of the schema.
SchemaItems ==
    {<<t>> : t \in DOMAIN Schema}
    \cup UNION {{<<t, c>> : c \in Schema[t]} : t \in DOMAIN Schema}

\* The queries of the constructor, in the order it prepares them.
Queries ==
    <<[table |-> "junctions", columns |-> {"junction_id", "name"}],
      [table |-> "segments", columns |-> {"segment_id", "junction_id", "name"}],
      [table |-> "lane_boundaries", columns |-> {"boundary_id", "geometry"}],
      [table |-> "lanes",
       columns |-> {"lane_id", "segment_id", "left_boundary_id", "right_boundary_id"}],
      [table |-> "view_adjacent_lanes", columns |-> {"lane_id", "adjacent_lane_id", "side"}],
      [table |-> "branch_point_lanes",
       columns |-> {"branch_point_id", "lane_id", "lane_end", "side"}]>>

\* The queries whose row handling has a MALIPUT_VALIDATE or decodes a blob.
ThrowingQueries == {2, 3, 4, 6}

\* A file: absent, not an SQLite database, or a database that lacks the
\* items of missing.
Databases ==
    {[kind |-> k, missing |-> {}] : k \in {"absent", "not_sqlite"}}
    \cup {[kind |-> "sqlite", missing |-> m] : m \in {{}} \cup {{i} : i \in SchemaItems}}

NoDatabase == [kind |-> "sqlite", missing |-> {}]

\* sqlite3_open_v2 with SQLITE_OPEN_READONLY succeeds on every file that exists.
OpenFails(db) == db.kind = "absent"

\* sqlite3_prepare_v2 of query q fails on a file that is no database and
\* when the table or a column the query names does not exist.
PrepareFails(db, q) ==
    \/ db.kind = "not_sqlite"
    \/ <<Queries[q].table>> \in db.missing
    \/ \E c \in Queries[q].columns : <<Queries[q].table, c>> \in db.missing

\* The library's books: handles and statements alive, calls made, and the
\* result of the statement being stepped.
NoHandles ==
    [handles |-> 0, statements |-> 0, opens |-> 0, closes |-> 0,
     prepares |-> 0, finalizes |-> 0, rows |-> 0, cursor |-> 0]

\* sqlite3_open_v2: a handle is allocated whether or not the open succeeds.
sqlite3_open_v2(sq) == [sq EXCEPT !.handles = @ + 1, !.opens = @ + 1]

\* sqlite3_close: refused (SQLITE_BUSY) while a statement of the handle lives.
sqlite3_close(sq) ==
    IF sq.statements > 0 THEN sq
    ELSE [sq EXCEPT !.handles = @ - 1, !.closes = @ + 1]

\* sqlite3_prepare_v2 of a query with a result of n rows.
sqlite3_prepare_v2(sq, n) ==
    [sq EXCEPT !.statements = @ + 1, !.prepares = @ + 1, !.rows = n, !.cursor = 0]

sqlite3_finalize(sq) == [sq EXCEPT !.statements = @ - 1, !.finalizes = @ + 1]

\* The result codes sqlite3_step can return now.
StepCodes(sq) ==
    (IF sq.cursor < sq.rows THEN {"SQLITE_ROW"} ELSE {"SQLITE_DONE"})
    \cup {"SQLITE_BUSY", "SQLITE_ERROR"}

\* A Step that takes every code but SQLITE_ROW for the end of the result.
StepErrorIsDone(rc) ==
    IF rc = "SQLITE_ROW" THEN "Row" ELSE "Done"

\* SqliteStatement::Step seen from the caller: what it does with rc.
Step(rc) ==
    IF rc = "SQLITE_ROW" THEN "Row"
    ELSE IF rc = "SQLITE_DONE" THEN "Done"
    ELSE "Error"

\* A deleter that finalizes nothing.
SqliteStatementDeleterLeaks(stmt, sq) == sq

\* SqliteStatementDeleter / ~SqliteStatement: if (stmt) sqlite3_finalize(stmt).
SqliteStatementDeleter(stmt, sq) ==
    IF stmt = "prepared" THEN sqlite3_finalize(sq) ELSE sq

\* SqliteDeleter / ~SqliteDatabase: if (db) sqlite3_close(db).
SqliteDeleter(db, sq) ==
    IF db = "open" THEN sqlite3_close(sq) ELSE sq

\* An exception leaves the constructor: the statement of the scope, if
\* any, is destroyed first and the database after it.
Unwind(stmt, db, sq) == SqliteDeleter(db, SqliteStatementDeleter(stmt, sq))

\* A column of the current row: SQL NULL, or its bytes.
NullColumn == [null |-> TRUE, bytes |-> <<>>]

ColumnValues ==
    {NullColumn}
    \cup {[null |-> FALSE, bytes |-> b] : b \in {<<>>, <<97>>, <<97, 0, 98>>, <<0, 97>>}}

\* sqlite3_column_text: a null pointer for NULL, else the bytes and a
\* terminating zero.
sqlite3_column_text(v) ==
    IF v.null THEN [null |-> TRUE, bytes |-> <<>>]
    ELSE [null |-> FALSE, bytes |-> v.bytes \o <<0>>]

sqlite3_column_bytes(v) == Len(v.bytes)

\* std::string(const char*): the bytes before the first zero.
RECURSIVE CString(_)
CString(bytes) ==
    IF bytes = <<>> \/ Head(bytes) = 0 THEN <<>>
    ELSE <<Head(bytes)>> \o CString(Tail(bytes))

\* GetColumnText of sqlite_helpers.cc (lines 84-91).
GetColumnTextOutOfLine(v) ==
    LET text == sqlite3_column_text(v)
    IN  IF ~text.null THEN SubSeq(text.bytes, 1, sqlite3_column_bytes(v)) ELSE <<>>

\* GetColumnText of sqlite_helpers.h (lines 91-94), the same as the class
\* private to geopackage_parser.cc (lines 100-103).
GetColumnTextInline(v) ==
    LET text == sqlite3_column_text(v)
    IN  IF ~text.null THEN CString(text.bytes) ELSE <<>>

\* GetColumnText of the definition the build uses.
GetColumnText(which, v) ==
    IF which = "out_of_line" THEN GetColumnTextOutOfLine(v) ELSE GetColumnTextInline(v)

NoColumn == [read |-> FALSE, value |-> NullColumn, text |-> <<>>]

\* No database is involved.
NoSql ==
    /\ database = NoDatabase
    /\ helpers = "inline"
    /\ db_ = "null"
    /\ stmt_ = "null"
    /\ sqlite = NoHandles
    /\ query = 0
    /\ step_log = <<>>
    /\ column = NoColumn

\* All that is not SQLite.
topology == <<inputs, geom, walk, lanes, bp_done, segment_lanes, junctions_, connections_>>

Init == Locals /\ NoBlob /\ NoSql /\ pc = "lanes" /\ Tables

(***************************************************************************)
(* The constructor, GeoPackageManager::GeoPackageManager (lines 50-182).   *)
(***************************************************************************)
\* Lines 61-94 when every boundary is found.
BuildLanes ==
    /\ pc = "lanes"
    /\ \A l \in DOMAIN gpkg_lanes :
          /\ ~MissingBoundary(gpkg_lanes[l].left_boundary_id)
          /\ ~MissingBoundary(gpkg_lanes[l].right_boundary_id)
    /\ lanes' = [l \in DOMAIN gpkg_lanes |-> BuildLane(l)]
    /\ pc' = "branch_points"
    /\ UNCHANGED <<inputs, geom, sql, walk, bp_done, segment_lanes, junctions_, connections_>>

\* The lanes whose boundaries are missing are left out and the others built.
BuildLanesSkipsMissing ==
    /\ pc = "lanes"
    /\ \E l \in DOMAIN gpkg_lanes :
          \/ MissingBoundary(gpkg_lanes[l].left_boundary_id)
          \/ MissingBoundary(gpkg_lanes[l].right_boundary_id)
    /\ lanes' = [l \in {l \in DOMAIN gpkg_lanes :
                             /\ ~MissingBoundary(gpkg_lanes[l].left_boundary_id)
                             /\ ~MissingBoundary(gpkg_lanes[l].right_boundary_id)} |-> BuildLane(l)]
    /\ pc' = "branch_points"
    /\ UNCHANGED <<inputs, geom, sql, walk, bp_done, segment_lanes, junctions_, connections_>>

\* Lines 61-94 when get_geometry throws: the constructor is left.
BuildLanesThrows ==
    /\ pc = "lanes"
    /\ \E l \in DOMAIN gpkg_lanes :
          \/ MissingBoundary(gpkg_lanes[l].left_boundary_id)
          \/ MissingBoundary(gpkg_lanes[l].right_boundary_id)
    /\ pc' = "failed"
    /\ UNCHANGED <<inputs, geom, sql, walk, lanes, bp_done, segment_lanes, junctions_, connections_>>

\* Lines 97-129 for one branch point, in any enumeration order.
ResolveBranchPoint ==
    /\ pc = "branch_points"
    /\ \E bp \in DOMAIN gpkg_branch_points \ bp_done :
          LET r == ConnectPairs(lanes, SidePairs(gpkg_branch_points[bp]), 1)
          IN  /\ r.ok
              /\ lanes' = r.lanes
              /\ bp_done' = bp_done \cup {bp}
    /\ UNCHANGED <<inputs, geom, sql, walk, segment_lanes, junctions_, connections_, pc>>

\* Lines 97-129 when StrToLaneEndWhich or lanes.at throws.
ResolveBranchPointThrows ==
    /\ pc = "branch_points"
    /\ \E bp \in DOMAIN gpkg_branch_points \ bp_done :
          LET r == ConnectPairs(lanes, SidePairs(gpkg_branch_points[bp]), 1)
          IN  /\ ~r.ok
              /\ lanes' = r.lanes
    /\ pc' = "failed"
    /\ UNCHANGED <<inputs, geom, sql, walk, bp_done, segment_lanes, junctions_, connections_>>

\* Lines 132-136: the lanes are moved into the vector of their segment, in
\* the enumeration order of the map.
BucketLanes ==
    /\ pc = "branch_points"
    /\ bp_done = DOMAIN gpkg_branch_points
    /\ \E order \in Perms(DOMAIN lanes) :
          LET in_order == [k \in 1..Len(order) |-> lanes[order[k]]]
          IN  segment_lanes' =
                  [s \in {gpkg_lanes[id].segment_id : id \in DOMAIN lanes} |->
                      SelectSeq(in_order, LAMBDA lane : gpkg_lanes[lane.id].segment_id = s)]
    /\ lanes' = EmptyMap
    /\ pc' = "sort"
    /\ UNCHANGED <<inputs, geom, sql, walk, bp_done, junctions_, connections_>>

\* Lines 138-140.
SortSegments ==
    /\ pc = "sort"
    /\ segment_lanes' = [s \in DOMAIN segment_lanes |-> SortLanes(segment_lanes[s])]
    /\ pc' = "junctions"
    /\ UNCHANGED <<inputs, geom, sql, walk, lanes, bp_done, junctions_, connections_>>

\* The segments of a junction when junction_id is not looked at.
JunctionSegmentsAnyJunction(junction_id) ==
    [s \in DOMAIN gpkg_segments |->
        [id |-> s,
         lanes |-> IF s \in DOMAIN segment_lanes THEN segment_lanes[s] ELSE <<>>]]

\* Lines 143-149 and 154-156 for one junction: its segments with their lanes.
JunctionSegments(junction_id) ==
    [s \in {s \in DOMAIN gpkg_segments : gpkg_segments[s].junction_id = junction_id} |->
        [id |-> s,
         lanes |-> IF s \in DOMAIN segment_lanes THEN segment_lanes[s] ELSE <<>>]]

\* Lines 142-158.
BuildJunctions ==
    /\ pc = "junctions"
    /\ junctions_' = [j \in gpkg_junctions |-> [id |-> j, segments |-> JunctionSegments(j)]]
    /\ segment_lanes' = EmptyMap
    /\ pc' = "connections"
    /\ UNCHANGED <<inputs, geom, sql, walk, lanes, bp_done, connections_>>

\* Lines 160-172.
PopulateConnections ==
    /\ pc = "connections"
    /\ connections_' \in PopulatedConnections(junctions_)
    /\ pc' = "dedup"
    /\ UNCHANGED <<inputs, geom, sql, walk, lanes, bp_done, segment_lanes, junctions_>>

\* Lines 174-181.
DeduplicateConnections ==
    /\ pc = "dedup"
    /\ connections_' = Unique(SortConnections(connections_))
    /\ pc' = "done"
    /\ UNCHANGED <<inputs, geom, sql, walk, lanes, bp_done, segment_lanes, junctions_>>

Next ==
    \/ BuildLanes
    \/ BuildLanesThrows
    \/ ResolveBranchPoint
    \/ ResolveBranchPointThrows
    \/ BucketLanes
    \/ SortSegments
    \/ BuildJunctions
    \/ PopulateConnections
    \/ DeduplicateConnections

Spec == Init /\ [][Next]_vars

(***************************************************************************)
(* GeoPackageParser::GeoPackageParser of geopackage_parser.cc: the parser  *)
(* that reads the tables itself and fills junctions_ and connections_.     *)
(* Rows of a table come in any order (no ORDER BY).                        *)
(***************************************************************************)
\* The longest walk along left_lane_id that is followed.
MaxWalk == 5

\* Lines 184-193: one Junction per row, without segments.
ParseJunctions ==
    /\ pc = "p_junctions"
    /\ junctions_' = [j \in gpkg_junctions |-> [id |-> j, segments |-> EmptyMap]]
    /\ pc' = "p_segments"
    /\ UNCHANGED <<inputs, geom, sql, walk, lanes, bp_done, segment_lanes, connections_>>

\* Lines 207-209: the junction of a segment row is not in junctions_.
UnknownJunction(segment_id) ==
    gpkg_segments[segment_id].junction_id \notin DOMAIN junctions_

\* Lines 196-212: every segment is emplaced, empty, in its junction.
ParseSegments ==
    /\ pc = "p_segments"
    /\ \A s \in DOMAIN gpkg_segments : ~UnknownJunction(s)
    /\ junctions_' =
          [j \in DOMAIN junctions_ |->
              [id |-> j,
               segments |->
                  [s \in {s \in DOMAIN gpkg_segments : gpkg_segments[s].junction_id = j} |->
                      [id |-> s, lanes |-> <<>>]]]]
    /\ pc' = "p_lanes"
    /\ UNCHANGED <<inputs, geom, sql, walk, lanes, bp_done, segment_lanes, connections_>>

\* Lines 207-209: MALIPUT_VALIDATE throws on the first such row.
ParseSegmentsThrows ==
    /\ pc = "p_segments"
    /\ \E s \in DOMAIN gpkg_segments : UnknownJunction(s)
    /\ pc' = "failed"
    /\ UNCHANGED <<inputs, geom, sql, walk, lanes, bp_done, segment_lanes, junctions_, connections_>>

\* Lines 241-249: the Lane of a row, boundaries as stored, no neighbours.
ParserLane(lane_id) ==
    [id |-> lane_id,
     left_boundary |-> gpkg_boundaries[gpkg_lanes[lane_id].left_boundary_id],
     right_boundary |-> gpkg_boundaries[gpkg_lanes[lane_id].right_boundary_id],
     left_lane_id |-> nullopt,
     right_lane_id |-> nullopt,
     predecessors |-> EmptyMap,
     successors |-> EmptyMap]

\* Lines 236-239 and 252-262: a boundary or the segment of the row is unknown.
LaneRowThrows(lane_id) ==
    \/ MissingBoundary(gpkg_lanes[lane_id].left_boundary_id)
    \/ MissingBoundary(gpkg_lanes[lane_id].right_boundary_id)
    \/ \A j \in DOMAIN junctions_ :
          gpkg_lanes[lane_id].segment_id \notin DOMAIN junctions_[j].segments

\* The rows of rows_order that name segment_id, in row order.
RowsOfSegment(rows_order, segment_id) ==
    SelectSeq(rows_order, LAMBDA l : gpkg_lanes[l].segment_id = segment_id)

\* Lines 253-261 over all rows: each segment's lanes in row order.
PushedLanes(rows_order, segment_id) ==
    LET ids == RowsOfSegment(rows_order, segment_id)
    IN  [k \in 1..Len(ids) |-> ParserLane(ids[k])]

\* Lines 226-263.
ParseLanes ==
    /\ pc = "p_lanes"
    /\ \A l \in DOMAIN gpkg_lanes : ~LaneRowThrows(l)
    /\ \E rows_order \in Perms(DOMAIN gpkg_lanes) :
          junctions_' =
              [j \in DOMAIN junctions_ |->
                  [id |-> j,
                   segments |->
                      [s \in DOMAIN junctions_[j].segments |->
                          [id |-> s, lanes |-> PushedLanes(rows_order, s)]]]]
    /\ reorder_todo' =
          UNION {{<<j, s>> : s \in DOMAIN junctions_[j].segments} : j \in DOMAIN junctions_}
    /\ pc' = "p_reorder"
    /\ UNCHANGED <<inputs, geom, sql, reorder_seg, current, ordered_lanes, lanes, bp_done,
                   segment_lanes, connections_>>

\* Lines 236-239, 262: the first such row throws.
ParseLanesThrows ==
    /\ pc = "p_lanes"
    /\ \E l \in DOMAIN gpkg_lanes : LaneRowThrows(l)
    /\ pc' = "failed"
    /\ UNCHANGED <<inputs, geom, sql, walk, lanes, bp_done, segment_lanes, junctions_, connections_>>

\* Lines 288-294: a neighbour is set when left_adj / right_adj holds the lane.
WithAdjacency(lane) ==
    [lane EXCEPT
        !.left_lane_id = IF AdjacentLaneId(lane.id, "left") # nullopt
                         THEN AdjacentLaneId(lane.id, "left") ELSE @,
        !.right_lane_id = IF AdjacentLaneId(lane.id, "right") # nullopt
                          THEN AdjacentLaneId(lane.id, "right") ELSE @]

\* Lines 308-315: the indices of the lanes without right_lane_id.
NoRightLane(ls) == {k \in 1..Len(ls) : ls[k].right_lane_id = nullopt}

\* Lines 284-316 for one segment, in any enumeration order of the maps: the
\* adjacency of its lanes is updated and current is set to the first lane
\* without right_lane_id; a segment of at most one lane, or without such a
\* lane (line 334), is left as it is.
ReorderBegin ==
    /\ pc = "p_reorder"
    /\ reorder_seg = <<>>
    /\ \E js \in reorder_todo :
          LET updated == [k \in 1..Len(junctions_[js[1]].segments[js[2]].lanes) |->
                             WithAdjacency(junctions_[js[1]].segments[js[2]].lanes[k])]
          IN  /\ junctions_' = [junctions_ EXCEPT ![js[1]].segments[js[2]].lanes = updated]
              /\ IF Len(updated) > 1 /\ NoRightLane(updated) # {}
                 THEN /\ reorder_seg' = js
                      /\ current' = updated[CHOOSE k \in NoRightLane(updated) :
                                               \A m \in NoRightLane(updated) : k <= m].id
                      /\ reorder_todo' = reorder_todo
                 ELSE /\ reorder_seg' = <<>>
                      /\ current' = nullopt
                      /\ reorder_todo' = reorder_todo \ {js}
    /\ ordered_lanes' = <<>>
    /\ UNCHANGED <<inputs, geom, sql, lanes, bp_done, segment_lanes, connections_, pc>>

\* Lines 317-325: one iteration of while (current).
ReorderStep ==
    /\ pc = "p_reorder"
    /\ reorder_seg # <<>>
    /\ current # nullopt
    /\ Len(ordered_lanes) < MaxWalk
    /\ LET ls == junctions_[reorder_seg[1]].segments[reorder_seg[2]].lanes
           lane == ls[CHOOSE k \in 1..Len(ls) : ls[k].id = current]
       IN  /\ ordered_lanes' = Append(ordered_lanes, lane)
           /\ current' = IF lane.left_lane_id # nullopt
                            /\ \E k \in 1..Len(ls) : ls[k].id = lane.left_lane_id
                         THEN lane.left_lane_id
                         ELSE nullopt
    /\ UNCHANGED <<inputs, geom, sql, reorder_todo, reorder_seg, lanes, bp_done, segment_lanes,
                   junctions_, connections_, pc>>

\* Lines 327-332: the walk replaces the lanes when it holds as many.
ReorderEnd ==
    /\ pc = "p_reorder"
    /\ reorder_seg # <<>>
    /\ current = nullopt
    /\ junctions_' =
          IF Len(ordered_lanes) = Len(junctions_[reorder_seg[1]].segments[reorder_seg[2]].lanes)
          THEN [junctions_ EXCEPT ![reorder_seg[1]].segments[reorder_seg[2]].lanes = ordered_lanes]
          ELSE junctions_
    /\ reorder_todo' = reorder_todo \ {reorder_seg}
    /\ reorder_seg' = <<>>
    /\ ordered_lanes' = <<>>
    /\ UNCHANGED <<inputs, geom, sql, current, lanes, bp_done, segment_lanes, connections_, pc>>

\* Lines 360-366: the lane_end strings the parser accepts.
ParserLaneEnd(end_str) ==
    IF end_str \in {"Start", "start"} THEN "kStart"
    ELSE IF end_str \in {"End", "Finish", "finish"} THEN "kFinish"
    ELSE "throw"

\* Lines 357 and 365: the row makes the constructor throw.
ConnectionRowThrows(row) ==
    \/ row.lane_id \notin DOMAIN gpkg_lanes
    \/ ParserLaneEnd(row.lane_end) = "throw"

\* Lines 372-389 for one branch point: side a times side b, a outermost.
BranchPointConnections(bp_lanes) ==
    LET side_a == SelectSeq(bp_lanes, LAMBDA r : r.side = "a")
        side_b == SelectSeq(bp_lanes, LAMBDA r : r.side = "b")
    IN  [k \in 1..(Len(side_a) * Len(side_b)) |->
            LET a == side_a[((k - 1) \div Len(side_b)) + 1]
                b == side_b[((k - 1) % Len(side_b)) + 1]
            IN  [from |-> [lane_id |-> a.lane_id, end |-> ParserLaneEnd(a.lane_end)],
                 to |-> [lane_id |-> b.lane_id, end |-> ParserLaneEnd(b.lane_end)]]]

\* Lines 341-390, the branch points in any enumeration order.
ParseConnections ==
    /\ pc = "p_reorder"
    /\ reorder_seg = <<>>
    /\ reorder_todo = {}
    /\ \A bp \in DOMAIN gpkg_branch_points :
          \A k \in 1..Len(gpkg_branch_points[bp]) : ~ConnectionRowThrows(gpkg_branch_points[bp][k])
    /\ \E bp_order \in Perms(DOMAIN gpkg_branch_points) :
          connections_' \in
              Concats([k \in 1..Len(bp_order) |->
                          {BranchPointConnections(gpkg_branch_points[bp_order[k]])}])
    /\ pc' = "p_done"
    /\ UNCHANGED <<inputs, geom, sql, walk, lanes, bp_done, segment_lanes, junctions_>>

\* Lines 357, 365: the first such row throws.
ParseConnectionsThrows ==
    /\ pc = "p_reorder"
    /\ reorder_seg = <<>>
    /\ reorder_todo = {}
    /\ \E bp \in DOMAIN gpkg_branch_points :
          \E k \in 1..Len(gpkg_branch_points[bp]) : ConnectionRowThrows(gpkg_branch_points[bp][k])
    /\ pc' = "failed"
    /\ UNCHANGED <<inputs, geom, sql, walk, lanes, bp_done, segment_lanes, junctions_, connections_>>

InitParser == Locals /\ NoBlob /\ NoSql /\ pc = "p_junctions" /\ Tables

NextParser ==
    \/ ParseJunctions
    \/ ParseSegments
    \/ ParseSegmentsThrows
    \/ ParseLanes
    \/ ParseLanesThrows
    \/ ReorderBegin
    \/ ReorderStep
    \/ ReorderEnd
    \/ ParseConnections
    \/ ParseConnectionsThrows

SpecParser == InitParser /\ [][NextParser]_vars

(***************************************************************************)
(* ParseGeopackageGeometry of geopackage_parser.cc and the parsing of one  *)
(* row of lane_boundaries.  A blob is a sequence of bytes; a double is the *)
(* sequence of its 8 bytes, as memcpy reads it.                            *)
(***************************************************************************)
\* MALIPUT_VALIDATE fails: the decoder throws.
DecoderThrows == [ok |-> FALSE, wkb_at |-> 0, points |-> <<>>]

\* The bytes of 0.0.
ZeroDouble == <<0, 0, 0, 0, 0, 0, 0, 0>>

\* Lines 139-145: wkb_type & 0x0FFFFFFF of the 4 little-endian bytes at p.
BaseType(data, p) ==
    data[p] + 256 * data[p + 1] + 65536 * data[p + 2] + 16777216 * (data[p + 3] % 16)

\* Lines 153-154: the little-endian uint32 at p; every value with a high
\* byte is above the bound of line 158 and is read as 2^24.
NumPoints(data, p) ==
    IF data[p + 3] # 0 THEN 16777216
    ELSE data[p] + 256 * data[p + 1] + 65536 * data[p + 2]

\* Lines 166-173: X and Y are read, 16 bytes a point, and Z is 0.0.
ReadPoints(data, p, num_points) ==
    [i \in 1..num_points |->
        <<SubSeq(data, p + 16 * (i - 1), p + 16 * (i - 1) + 7),
          SubSeq(data, p + 16 * (i - 1) + 8, p + 16 * (i - 1) + 15),
          ZeroDouble>>]

\* Lines 113-176.  data is null for a zero-length blob (line 115); ptr is
\* the C++ offset, the TLA+ index is ptr + 1; wkb_at is ptr when the byte
\* order is read (line 129).
ParseGeopackageGeometry(data) ==
    LET bytes == Len(data)
    IN  IF bytes = 0 THEN DecoderThrows
        ELSE IF bytes < 21 THEN DecoderThrows
        ELSE IF 8 > bytes - 9 THEN DecoderThrows
        ELSE IF data[9] # 1 THEN DecoderThrows
        ELSE IF 9 > bytes - 4 THEN DecoderThrows
        ELSE IF BaseType(data, 10) # 2 THEN DecoderThrows
        ELSE IF 13 > bytes - 4 THEN DecoderThrows
        ELSE IF NumPoints(data, 14) > 1000000 THEN DecoderThrows
        ELSE IF 17 > bytes - NumPoints(data, 14) * 16 THEN DecoderThrows
        ELSE [ok |-> TRUE, wkb_at |-> 8, points |-> ReadPoints(data, 18, NumPoints(data, 14))]

(***************************************************************************)
(* The blobs explored, built as BuildGeometryBlob of the tests builds      *)
(* them, with an envelope between the header and the WKB.                  *)
(***************************************************************************)
\* The bytes of a coordinate: 0 is 0.0, v > 0 is the double 0x40vv000000000000.
Double(v) == <<0, 0, 0, 0, 0, 0, v, IF v = 0 THEN 0 ELSE 64>>

\* The 4 little-endian bytes of a WKB type: base type and Z flag (bit 31).
TypeBytes(base_type, z_flag) == <<base_type, 0, 0, IF z_flag THEN 128 ELSE 0>>

\* The 4 little-endian bytes of a small uint32.
LE32(n) == <<n % 256, (n \div 256) % 256, (n \div 65536) % 256, 0>>

RECURSIVE PointBytes(_, _)
PointBytes(points, use_z) ==
    IF points = <<>> THEN <<>>
    ELSE Double(points[1][1]) \o Double(points[1][2])
         \o (IF use_z THEN Double(points[1][3]) ELSE <<>>)
         \o PointBytes(Tail(points), use_z)

\* BuildGeometryBlob with srs_id 0, the points given instead of generated.
BuildGeometryBlob(magic0, magic1, version, flags, envelope, byte_order, wkb_type, points, use_z) ==
    <<magic0, magic1, version, flags, 0, 0, 0, 0>> \o envelope
    \o <<byte_order>> \o wkb_type \o LE32(Len(points)) \o PointBytes(points, use_z)

\* The envelope sizes of the GeoPackage binary format, by indicator.
EnvelopeSize(indicator) ==
    CASE indicator = 0 -> 0
      [] indicator = 1 -> 32
      [] indicator \in {2, 3} -> 48
      [] indicator = 4 -> 64
      [] OTHER -> 0

\* Bits 1-3 of the flags byte.
EnvelopeIndicator(data) == (data[4] \div 2) % 8

Zeros(n) == [k \in 1..n |-> 0]

\* Envelopes of an indicator: all zero, or doubles whose first bytes read as
\* a little-endian WKB linestring without points.
Envelopes(indicator) ==
    IF EnvelopeSize(indicator) = 0 THEN {<<>>}
    ELSE {Zeros(EnvelopeSize(indicator)),
          <<1, 2, 0, 0, 0, 0, 0, 0, 0>> \o Zeros(EnvelopeSize(indicator) - 9)}

GeomPoints == {0, 1} \X {0, 2} \X {0, 3}

PointSeqs == SeqsUpTo(GeomPoints, MaxPoints)

\* What a conforming encoder writes for points: GP, version 0, no envelope.
Encode(points, has_z) ==
    BuildGeometryBlob(71, 80, 0, 0, <<>>, 1, TypeBytes(2, has_z), points, has_z)

ConformingBlobs == {Encode(points, has_z) : points \in PointSeqs, has_z \in BOOLEAN}

TwoPoints == <<<<1, 2, 3>>, <<0, 2, 0>>>>

\* Magic, version, byte order and type vary ('G' 71, 'P' 80, 'X' 88).
HeaderBlobs ==
    {BuildGeometryBlob(m0, m1, version, 0, <<>>, byte_order, TypeBytes(base_type, has_z),
                       points, has_z) :
        m0 \in {71, 88}, m1 \in {80, 88}, version \in {0, 1}, byte_order \in {0, 1},
        base_type \in {1, 2}, has_z \in BOOLEAN, points \in {<<>>, TwoPoints}}

\* Every envelope indicator, with the envelope the format asks for.
EnvelopeBlobs ==
    UNION {{BuildGeometryBlob(71, 80, 0, 2 * indicator, envelope, byte_order,
                              TypeBytes(2, FALSE), points, FALSE) :
               envelope \in Envelopes(indicator), byte_order \in {0, 1},
               points \in {<<>>, TwoPoints}} : indicator \in 0..7}

\* Truncated and padded blobs, and a point count with a high byte.
LengthBlobs ==
    {SubSeq(Encode(<<<<1, 2, 3>>>>, FALSE), 1, n) : n \in 0..33}
    \cup {Encode(<<>>, has_z) \o Zeros(n) : n \in 0..8, has_z \in BOOLEAN}
    \cup {SubSeq(Encode(<<>>, FALSE), 1, 16) \o <<1>> \o Zeros(40)}
    \cup {SubSeq(Encode(<<<<1, 2, 3>>, <<0, 2, 3>>>>, TRUE), 1, n) : n \in 17..65}

Blobs == ConformingBlobs \cup HeaderBlobs \cup EnvelopeBlobs \cup LengthBlobs

\* The parser is about to read the one row of lane_boundaries.
InitDecoder ==
    /\ Locals
    /\ gpkg_junctions = {}
    /\ gpkg_segments = EmptyMap
    /\ gpkg_lanes = EmptyMap
    /\ gpkg_boundaries = EmptyMap
    /\ gpkg_branch_points = EmptyMap
    /\ gpkg_adjacent_lanes = EmptyMap
    /\ blob \in Blobs
    /\ decoded = NotDecoded
    /\ NoSql
    /\ pc = "p_boundaries"

\* Lines 213-223: the blob of the row is decoded and the boundary kept.
ParseLaneBoundary ==
    /\ pc = "p_boundaries"
    /\ ParseGeopackageGeometry(blob).ok
    /\ decoded' = ParseGeopackageGeometry(blob)
    /\ pc' = "p_boundaries_done"
    /\ UNCHANGED <<inputs, sql, walk, blob, lanes, bp_done, segment_lanes, junctions_, connections_>>

\* Line 221 when ParseGeopackageGeometry throws: the constructor is left.
ParseLaneBoundaryThrows ==
    /\ pc = "p_boundaries"
    /\ ~ParseGeopackageGeometry(blob).ok
    /\ pc' = "failed"
    /\ UNCHANGED <<inputs, geom, sql, walk, lanes, bp_done, segment_lanes, junctions_, connections_>>

NextDecoder ==
    \/ ParseLaneBoundary
    \/ ParseLaneBoundaryThrows

SpecDecoder == InitDecoder /\ [][NextDecoder]_vars

(***************************************************************************)
(* GeoPackageParser::GeoPackageParser seen from SQLite: the database is    *)
(* opened, the six queries are prepared, stepped and finalized in turn,    *)
(* and the database is closed when the constructor is left.                *)
(***************************************************************************)
InitSqlite ==
    /\ Locals
    /\ NoBlob
    /\ gpkg_junctions = {}
    /\ gpkg_segments = EmptyMap
    /\ gpkg_lanes = EmptyMap
    /\ gpkg_boundaries = EmptyMap
    /\ gpkg_branch_points = EmptyMap
    /\ gpkg_adjacent_lanes = EmptyMap
    /\ database \in Databases
    /\ helpers \in {"out_of_line", "inline"}
    /\ db_ = "null"
    /\ stmt_ = "null"
    /\ sqlite = NoHandles
    /\ query = 0
    /\ step_log = <<>>
    /\ column = NoColumn
    /\ pc = "s_open"

\* SqliteDatabase::SqliteDatabase when sqlite3_open_v2 returns SQLITE_OK.
Open ==
    /\ pc = "s_open"
    /\ ~OpenFails(database)
    /\ sqlite' = sqlite3_open_v2(sqlite)
    /\ db_' = "open"
    /\ query' = 1
    /\ pc' = "s_prepare"
    /\ UNCHANGED <<topology, database, helpers, stmt_, step_log, column>>

\* SqliteDatabase::SqliteDatabase when the open fails: the handle is closed
\* and the constructor throws; no SqliteDatabase exists, no destructor runs.
OpenThrows ==
    /\ pc = "s_open"
    /\ OpenFails(database)
    /\ sqlite' = sqlite3_close(sqlite3_open_v2(sqlite))
    /\ pc' = "failed"
    /\ UNCHANGED <<topology, database, helpers, db_, stmt_, query, step_log, column>>

\* SqliteStatement::SqliteStatement of the next query; its result has
\* rows rows.
Prepare ==
    /\ pc = "s_prepare"
    /\ ~PrepareFails(database, query)
    /\ \E rows \in 0..MaxRows : sqlite' = sqlite3_prepare_v2(sqlite, rows)
    /\ stmt_' = "prepared"
    /\ step_log' = <<>>
    /\ column' = NoColumn
    /\ pc' = "s_step"
    /\ UNCHANGED <<topology, database, helpers, db_, query>>

\* sqlite3_prepare_v2 fails: stmt_ stays null, the constructor throws and
\* the database is destroyed.
PrepareThrows ==
    /\ pc = "s_prepare"
    /\ PrepareFails(database, query)
    /\ sqlite' = Unwind("null", db_, sqlite)
    /\ db_' = "closed"
    /\ pc' = "failed"
    /\ UNCHANGED <<topology, database, helpers, stmt_, query, step_log, column>>

\* stmt.Step() returns true: the loop body is entered with the next row.
StepRow ==
    /\ pc = "s_step"
    /\ \E rc \in StepCodes(sqlite) :
         /\ Step(rc) = "Row"
         /\ sqlite' = IF rc = "SQLITE_ROW" THEN [sqlite EXCEPT !.cursor = @ + 1] ELSE sqlite
         /\ step_log' = Append(step_log,
                               [rc |-> rc, result |-> "Row", row |-> sqlite'.cursor])
    /\ pc' = "s_row"
    /\ UNCHANGED <<topology, database, helpers, db_, stmt_, query, column>>

\* stmt.Step() returns false: the loop is left.
StepDone ==
    /\ pc = "s_step"
    /\ \E rc \in StepCodes(sqlite) :
         /\ Step(rc) = "Done"
         /\ step_log' = Append(step_log,
                               [rc |-> rc, result |-> "Done", row |-> 0])
    /\ pc' = "s_leave"
    /\ UNCHANGED <<topology, database, helpers, db_, stmt_, sqlite, query, column>>

\* stmt.Step() throws: the statement and the database are destroyed.
StepThrows ==
    /\ pc = "s_step"
    /\ \E rc \in StepCodes(sqlite) :
         /\ Step(rc) = "Error"
         /\ step_log' = Append(step_log,
                               [rc |-> rc, result |-> "Error", row |-> 0])
    /\ sqlite' = Unwind(stmt_, db_, sqlite)
    /\ stmt_' = "finalized"
    /\ db_' = "closed"
    /\ pc' = "failed"
    /\ UNCHANGED <<topology, database, helpers, query, column>>

\* The loop body: a text column of the row is read and the row is kept.
ReadRow ==
    /\ pc = "s_row"
    /\ \E value \in ColumnValues :
         column' = [read |-> TRUE, value |-> value, text |-> GetColumnText(helpers, value)]
    /\ pc' = "s_step"
    /\ UNCHANGED <<topology, database, helpers, db_, stmt_, sqlite, query, step_log>>

\* The loop body throws (a MALIPUT_VALIDATE, a blob that does not decode).
ReadRowThrows ==
    /\ pc = "s_row"
    /\ query \in ThrowingQueries
    /\ sqlite' = Unwind(stmt_, db_, sqlite)
    /\ stmt_' = "finalized"
    /\ db_' = "closed"
    /\ pc' = "failed"
    /\ UNCHANGED <<topology, database, helpers, query, step_log, column>>

\* The closing brace of the block of a query: the statement is destroyed.
LeaveScope ==
    /\ pc = "s_leave"
    /\ sqlite' = [SqliteStatementDeleter(stmt_, sqlite) EXCEPT !.rows = 0, !.cursor = 0]
    /\ stmt_' = "null"
    /\ step_log' = <<>>
    /\ column' = NoColumn
    /\ query' = IF query < Len(Queries) THEN query + 1 ELSE query
    /\ pc' = IF query < Len(Queries) THEN "s_prepare" ELSE "s_return"
    /\ UNCHANGED <<topology, database, helpers, db_>>

\* The constructor returns: the local db is destroyed.
Return ==
    /\ pc = "s_return"
    /\ sqlite' = SqliteDeleter(db_, sqlite)
    /\ db_' = "closed"
    /\ pc' = "s_done"
    /\ UNCHANGED <<topology, database, helpers, stmt_, query, step_log, column>>

NextSqlite ==
    \/ Open
    \/ OpenThrows
    \/ Prepare
    \/ PrepareThrows
    \/ StepRow
    \/ StepDone
    \/ StepThrows
    \/ ReadRow
    \/ ReadRowThrows
    \/ LeaveScope
    \/ Return

SpecSqlite == InitSqlite /\ [][NextSqlite]_vars

(***************************************************************************)
(* Vocabulary of the properties.                                           *)
(***************************************************************************)
Built == pc \in {"connections", "dedup", "done", "p_done"}

\* Every segment id a table can name.
AllSegmentIds == SegmentIds \cup {3}

\* The lanes the raw table assigns to segment S.
RawLanesOf(S) == {l \in DOMAIN gpkg_lanes : gpkg_lanes[l].segment_id = S}

\* The ids of a lane vector, in order.
Ids(ls) == [k \in 1..Len(ls) |-> ls[k].id]

\* The lane vectors of junctions(), as a set of <<segment id, vector>>.
ExposedSegments ==
    UNION {{<<s, junctions_[j].segments[s].lanes>> : s \in DOMAIN junctions_[j].segments} :
            j \in DOMAIN junctions_}

\* The lanes of junctions().
ExposedLanes == UNION {Range(sv[2]) : sv \in ExposedSegments}

ExposedLane(id) == CHOOSE lane \in ExposedLanes : lane.id = id

ExposedIds == {lane.id : lane \in ExposedLanes}

\* ls holds the lanes assigned to S, each once.
HoldsExactlyOnce(ls, S) ==
    /\ Range(Ids(ls)) = RawLanesOf(S)
    /\ Len(ls) = Cardinality(RawLanesOf(S))

\* C1: after the ordering pass the vector of every segment holds each lane
\* whose raw segment_id is that segment exactly once, whatever the adjacency;
\* the same holds of the lane vectors of the segments of junctions().
C1_EveryLaneExactlyOnce ==
    /\ pc = "junctions" =>
          \A S \in AllSegmentIds :
              HoldsExactlyOnce(IF S \in DOMAIN segment_lanes THEN segment_lanes[S] ELSE <<>>, S)
    /\ Built => \A sv \in ExposedSegments : HoldsExactlyOnce(sv[2], sv[1])

\* A segment of three lanes whose left links are all set and none points at
\* its own lane (a cycle through the segment) has been ordered.
C1_Witness ==
    /\ pc = "done"
    /\ \E sv \in ExposedSegments :
          /\ Len(sv[2]) = 3
          /\ \A k \in 1..3 : sv[2][k].left_lane_id \in Range(Ids(sv[2])) \ {sv[2][k].id}

\* id names a lane of the vector ls.
InSegment(ls, id) == id # nullopt /\ id \in Range(Ids(ls))

LaneById(ls, id) == ls[CHOOSE k \in 1..Len(ls) : ls[k].id = id]

\* The adjacency of the lanes of ls is the simple chain c[1], c[2], ...: c[1]
\* has no right neighbour in the segment, every lane names the next one as
\* its left neighbour and is named by it as its right neighbour, and the
\* last lane has no left neighbour in the segment.
IsChain(ls, c) ==
    /\ ~InSegment(ls, LaneById(ls, c[1]).right_lane_id)
    /\ \A i \in 1..(Len(c) - 1) :
          /\ LaneById(ls, c[i]).left_lane_id = c[i + 1]
          /\ LaneById(ls, c[i + 1]).right_lane_id = c[i]
    /\ ~InSegment(ls, LaneById(ls, c[Len(c)]).left_lane_id)

IsSimpleChain(ls) == ls # <<>> /\ \E c \in Perms(Range(Ids(ls))) : IsChain(ls, c)

\* ls is in right-to-left order.
RightToLeft(ls) ==
    /\ ~InSegment(ls, ls[1].right_lane_id)
    /\ \A k \in 1..(Len(ls) - 1) : ls[k + 1].id = ls[k].left_lane_id

\* C2: when the adjacency of a segment is a simple chain, its ordered lanes
\* are right-to-left: the first lane has no right neighbour in the segment,
\* every following lane is the left neighbour of the one before it, and every
\* lane of the segment is visited exactly once.
C2_SimpleChainRightToLeft ==
    /\ pc = "junctions" =>
          \A S \in DOMAIN segment_lanes :
              IsSimpleChain(segment_lanes[S]) =>
                  RightToLeft(segment_lanes[S]) /\ HoldsExactlyOnce(segment_lanes[S], S)
    /\ Built =>
          \A sv \in ExposedSegments :
              IsSimpleChain(sv[2]) => RightToLeft(sv[2]) /\ HoldsExactlyOnce(sv[2], sv[1])

\* A segment of three lanes whose adjacency is a simple chain is exposed.
C2_Witness ==
    /\ pc = "done"
    /\ \E sv \in ExposedSegments : Len(sv[2]) = 3 /\ IsSimpleChain(sv[2])

\* C9 as claimed: every left_lane_id and right_lane_id of an exposed lane
\* is absent or names a lane of the same segment.
C9_NeighboursInSameSegment ==
    Built =>
        \A sv \in ExposedSegments : \A k \in 1..Len(sv[2]) :
            /\ sv[2][k].left_lane_id = nullopt \/ InSegment(sv[2], sv[2][k].left_lane_id)
            /\ sv[2][k].right_lane_id = nullopt \/ InSegment(sv[2], sv[2][k].right_lane_id)

\* The branch-point loop has visited every branch point.
Resolved == pc = "branch_points" /\ bp_done = DOMAIN gpkg_branch_points

\* The map of lane B that holds the links at its end e.
LinksAt(lane, e) == IF e = "kStart" THEN lane.predecessors ELSE lane.successors

\* Lane B (if it is a lane of ls) holds a link at its end e back to {A, back_end}.
LinkedBack(ls, B, e, A, back_end) ==
    /\ B \in DOMAIN ls
    /\ \E k \in DOMAIN LinksAt(ls[B], e) :
          LinksAt(ls[B], e)[k] = [lane_id |-> A, end |-> back_end]

\* C3 as claimed: after branch-point resolution every predecessor edge of a
\* lane A to {B, e} has an edge on B, at its end e, back to {A, Start}, and
\* every successor edge of A to {B, e} has one back to {A, Finish}.
C3_LinksSymmetric ==
    Resolved =>
        \A A \in DOMAIN lanes :
            /\ \A k \in DOMAIN lanes[A].predecessors :
                  LinkedBack(lanes, lanes[A].predecessors[k].lane_id,
                             lanes[A].predecessors[k].end, A, "kStart")
            /\ \A k \in DOMAIN lanes[A].successors :
                  LinkedBack(lanes, lanes[A].successors[k].lane_id,
                             lanes[A].successors[k].end, A, "kFinish")

\* The lane end a well-formed row names.
RowEnd(row) ==
    [lane_id |-> row.lane_id, end |-> IF row.lane_end = "start" THEN "kStart" ELSE "kFinish"]

\* The (la, lb) pairs of the raw rows of branch point bp: la a row of side a,
\* lb a row of side b.
RawPairs(bp) ==
    {<<gpkg_branch_points[bp][i], gpkg_branch_points[bp][j]>> :
        i \in {i \in DOMAIN gpkg_branch_points[bp] : gpkg_branch_points[bp][i].side = "a"},
        j \in {j \in DOMAIN gpkg_branch_points[bp] : gpkg_branch_points[bp][j].side = "b"}}

AllRawPairs == UNION {RawPairs(bp) : bp \in DOMAIN gpkg_branch_points}

\* Connection c joins the lane ends x and y, in either direction.
Joins(c, x, y) == (c.from = x /\ c.to = y) \/ (c.from = y /\ c.to = x)

\* C4 as claimed: for every pair (la, lb) of a branch point whose lanes are
\* exposed, connections() holds exactly one Connection that joins the two
\* lane ends, a connection being an unordered pair.
C4_OneConnectionPerPairing ==
    pc = "done" =>
        \A p \in AllRawPairs :
            {p[1].lane_id, p[2].lane_id} \subseteq ExposedIds =>
                Cardinality({k \in DOMAIN connections_ :
                                Joins(connections_[k], RowEnd(p[1]), RowEnd(p[2]))}) = 1

\* The sort key of a connection.
Key(c) ==
    <<c.from.lane_id, IF c.from.end = "kStart" THEN 0 ELSE 1,
      c.to.lane_id, IF c.to.end = "kStart" THEN 0 ELSE 1>>

\* Lexicographic order of two keys.
KeyLess(x, y) ==
    \E i \in 1..4 : x[i] < y[i] /\ \A j \in 1..(i - 1) : x[j] = y[j]

\* C5: connections() is strictly increasing in the lexicographic order of
\* (from.lane_id, from.which, to.lane_id, to.which), so no 4-tuple is there
\* twice, also when several branch points declare the same pairing.
C5_ConnectionsStrictlySorted ==
    pc = "done" =>
        \A k \in 1..(Len(connections_) - 1) :
            KeyLess(Key(connections_[k]), Key(connections_[k + 1]))

\* Two branch points declare the same pairing and the list is built.
C5_Witness ==
    /\ pc = "done"
    /\ connections_ # <<>>
    /\ \E b1, b2 \in DOMAIN gpkg_branch_points :
          b1 # b2 /\ \E p \in RawPairs(b1), q \in RawPairs(b2) :
              RowEnd(p[1]) = RowEnd(q[1]) /\ RowEnd(p[2]) = RowEnd(q[2])

\* C6 as claimed: after construction, for every pair (la, lb) of a branch
\* point whose lanes are exposed, lane la holds lb.lane_id -> {lb.lane_id,
\* end_b} at its end end_a and lane lb holds la.lane_id -> {la.lane_id,
\* end_a} at its end end_b.
C6_PairEntriesHeld ==
    pc = "done" =>
        \A p \in AllRawPairs :
            {p[1].lane_id, p[2].lane_id} \subseteq ExposedIds =>
                LET A == ExposedLane(p[1].lane_id)
                    B == ExposedLane(p[2].lane_id)
                    at_a == LinksAt(A, RowEnd(p[1]).end)
                    at_b == LinksAt(B, RowEnd(p[2]).end)
                IN  /\ B.id \in DOMAIN at_a /\ at_a[B.id] = RowEnd(p[2])
                    /\ A.id \in DOMAIN at_b /\ at_b[A.id] = RowEnd(p[1])

\* Branch point bp has no row of side a or no row of side b.
SingleSided(bp) ==
    \/ \A i \in DOMAIN gpkg_branch_points[bp] : gpkg_branch_points[bp][i].side # "a"
    \/ \A i \in DOMAIN gpkg_branch_points[bp] : gpkg_branch_points[bp][i].side # "b"

\* Connection c joins the two lane ends of a pair of some branch point.
FromSomePair(c) ==
    \E bp \in DOMAIN gpkg_branch_points : \E p \in RawPairs(bp) :
        /\ {p[1].lane_end, p[2].lane_end} \subseteq {"start", "finish"}
        /\ Joins(c, RowEnd(p[1]), RowEnd(p[2]))

\* C7: the visit of a branch point whose rows are all on one side changes
\* the predecessors and successors of no lane, and every Connection of the
\* list joins a pair of a two-sided branch point; so the list is empty when
\* every branch point is single-sided.
C7_SingleSidedAddsNothing ==
    /\ [][\A bp \in bp_done' \ bp_done : SingleSided(bp) => lanes' = lanes]_vars
    /\ [](pc \in {"dedup", "done"} =>
            /\ \A k \in DOMAIN connections_ : FromSomePair(connections_[k])
            /\ (\A bp \in DOMAIN gpkg_branch_points : SingleSided(bp)) => connections_ = <<>>)

\* A single-sided branch point has been visited, next to a two-sided one
\* that yields connections, and the construction is complete.
C7_Witness ==
    /\ pc = "done"
    /\ connections_ # <<>>
    /\ \E bp \in bp_done : SingleSided(bp) /\ gpkg_branch_points[bp] # <<>>

\* The polyline a lane must have for a boundary id and its inversion flag.
ExpectedBoundary(boundary_id, inverted) ==
    LET raw == gpkg_boundaries[boundary_id]
    IN  IF inverted THEN [i \in 1..Len(raw) |-> raw[Len(raw) + 1 - i]] ELSE raw

FollowsFlags(lane) ==
    /\ lane.left_boundary = ExpectedBoundary(gpkg_lanes[lane.id].left_boundary_id,
                                             gpkg_lanes[lane.id].left_boundary_inverted)
    /\ lane.right_boundary = ExpectedBoundary(gpkg_lanes[lane.id].right_boundary_id,
                                              gpkg_lanes[lane.id].right_boundary_inverted)

\* C8: each boundary polyline of every lane, as built and as exposed, is the
\* raw geometry in reverse point order when the flag is true and the raw
\* geometry itself when it is false; the raw geometry the lane is compared
\* with is the table's, which no step changes, so two lanes that share a
\* boundary with different flags hold the two orders.
C8_BoundariesFollowFlags ==
    /\ \A l \in DOMAIN lanes : FollowsFlags(lanes[l])
    /\ Built => \A lane \in ExposedLanes : FollowsFlags(lane)

\* Lanes 1 and 2 share boundary 1, whose point order matters, with
\* different flags, and both are exposed.
C8_Witness ==
    /\ pc = "done"
    /\ {1, 2} \subseteq ExposedIds
    /\ gpkg_lanes[1].left_boundary_id = 1 /\ gpkg_lanes[2].right_boundary_id = 1
    /\ gpkg_lanes[1].left_boundary_inverted # gpkg_lanes[2].right_boundary_inverted
    /\ Len(gpkg_boundaries[1]) = 3
    /\ gpkg_boundaries[1][1] # gpkg_boundaries[1][3]
    /\ ExposedLane(1).left_boundary # ExposedLane(2).right_boundary

\* C10: junctions() has exactly the junctions of the table, also those that
\* own no segment; the segments of each are exactly the segments whose
\* junction_id names it, and each segment carries all the lanes assigned to it.
C10_JunctionsMirrorTables ==
    Built =>
        /\ DOMAIN junctions_ = gpkg_junctions
        /\ \A j \in DOMAIN junctions_ :
              /\ junctions_[j].id = j
              /\ DOMAIN junctions_[j].segments =
                     {s \in DOMAIN gpkg_segments : gpkg_segments[s].junction_id = j}
              /\ \A s \in DOMAIN junctions_[j].segments :
                    /\ junctions_[j].segments[s].id = s
                    /\ HoldsExactlyOnce(junctions_[j].segments[s].lanes, s)

\* Junction 2 owns no segment and junction 1 owns two, one with two lanes.
C10_Witness ==
    /\ pc = "done"
    /\ DOMAIN junctions_ = {1, 2}
    /\ DOMAIN junctions_[2].segments = {}
    /\ DOMAIN junctions_[1].segments = {1, 2}
    /\ Len(junctions_[1].segments[1].lanes) = 2
    /\ Len(junctions_[1].segments[2].lanes) = 1

(***************************************************************************)
(* Both constructors, each from its own entry.                             *)
(***************************************************************************)
InitBoth == Init \/ InitParser

NextBoth == Next \/ NextParser

SpecBoth == InitBoth /\ [][NextBoth]_vars

\* A row of the lanes table names a boundary that lane_boundaries lacks.
SomeBoundaryMissing ==
    \E l \in DOMAIN gpkg_lanes :
        \/ MissingBoundary(gpkg_lanes[l].left_boundary_id)
        \/ MissingBoundary(gpkg_lanes[l].right_boundary_id)

\* The constructor has not got past the lanes.
UpToLanes == pc \in {"lanes", "p_junctions", "p_segments", "p_lanes"}

\* C12: when a lane names a left or right boundary that is not a parsed
\* boundary, the construction never gets past the lanes: it fails, and no
\* junctions and no connections are ever exposed.
C12_MissingBoundaryFails ==
    /\ [](SomeBoundaryMissing =>
            /\ UpToLanes \/ pc = "failed"
            /\ ~Built
            /\ connections_ = <<>>)
    /\ [][SomeBoundaryMissing /\ pc \in {"lanes", "p_lanes"} => pc' = "failed"]_vars

\* A construction has failed on a lane whose right boundary is missing.
C12_Witness ==
    /\ pc = "failed"
    /\ MissingBoundary(gpkg_lanes[1].right_boundary_id)
    /\ ~MissingBoundary(gpkg_lanes[1].left_boundary_id)

\* The constructor has returned: the object exists.
Completed == pc \in {"done", "p_done"}

\* A lane names a segment, or a segment a junction, that was not parsed.
DanglingParent ==
    \/ \E l \in DOMAIN gpkg_lanes : gpkg_lanes[l].segment_id \notin DOMAIN gpkg_segments
    \/ \E s \in DOMAIN gpkg_segments : gpkg_segments[s].junction_id \notin gpkg_junctions

\* C13 as claimed: when a lane names a segment that was not parsed, or a
\* segment names a junction that was not parsed, the construction fails;
\* the lane or segment is never silently left out of the assembled model.
C13_DanglingParentFails == DanglingParent => ~Completed

\* All rows of branch_point_lanes.
AllBranchPointRows == UNION {Range(gpkg_branch_points[bp]) : bp \in DOMAIN gpkg_branch_points}

\* C14 as claimed: when a row of branch_point_lanes names a lane that was
\* not parsed, whatever the row, the construction fails.
C14_UnknownLaneFails ==
    (\E row \in AllBranchPointRows : row.lane_id \notin DOMAIN gpkg_lanes) => ~Completed

\* C15 as claimed: when a row of branch_point_lanes has a lane_end other
\* than "start" and "finish", the construction fails and exposes nothing.
C15_BadLaneEndFails ==
    (\E row \in AllBranchPointRows : row.lane_end \notin {"start", "finish"}) =>
        ~Completed /\ ~Built

\* All rows of view_adjacent_lanes.
AllAdjacentRows == UNION {Range(gpkg_adjacent_lanes[l]) : l \in DOMAIN gpkg_adjacent_lanes}

\* C16 as claimed: a side of branch_point_lanes other than "a" and "b", or a
\* side of view_adjacent_lanes other than "left" and "right", aborts the
\* construction.
C16_UnknownSideFails ==
    (\/ \E row \in AllBranchPointRows : row.side \notin {"a", "b"}
     \/ \E row \in AllAdjacentRows : row.side \notin {"left", "right"}) => ~Completed

\* The row of lane_boundaries was parsed without an error.
BoundaryParsed == pc = "p_boundaries_done"

\* C17 as claimed: a blob is accepted only if its bytes 0 and 1 are 'G' and
\* 'P' and its byte 2, the version, is 0; with another magic or version the
\* construction of the parser fails, whatever the length of the blob.
C17_MagicAndVersionChecked ==
    BoundaryParsed => blob[1] = 71 /\ blob[2] = 80 /\ blob[3] = 0

\* Where the WKB of a blob starts: after the header and the envelope.
WkbStart(data) == 8 + EnvelopeSize(EnvelopeIndicator(data))

\* C18 as claimed: a blob is accepted only if the byte-order byte of its WKB
\* is 1 and its WKB type masked with 0x0FFFFFFF is 2.
C18_ByteOrderAndTypeChecked ==
    BoundaryParsed =>
        /\ blob[WkbStart(blob) + 1] = 1
        /\ BaseType(blob, WkbStart(blob) + 2) = 2

\* The points of a decoded polyline: Z is kept with has_z and 0.0 without.
Decoded3D(points, has_z) ==
    [i \in 1..Len(points) |->
        <<Double(points[i][1]), Double(points[i][2]),
          IF has_z THEN Double(points[i][3]) ELSE ZeroDouble>>]

\* C19 as claimed: the envelope indicator is bits 1-3 of the flags byte; an
\* accepted blob has an indicator of at most 4 and its byte-order byte was
\* read 0, 32, 48, 48 or 64 bytes after the header, so a blob with a
\* well-formed envelope and WKB decodes to its points.
C19_EnvelopeSkipped ==
    /\ BoundaryParsed =>
          /\ EnvelopeIndicator(blob) <= 4
          /\ decoded.wkb_at = WkbStart(blob)
    /\ \A indicator \in 0..4, points \in {<<>>, TwoPoints} :
          (/\ pc # "p_boundaries"
           /\ blob = BuildGeometryBlob(71, 80, 0, 2 * indicator, Zeros(EnvelopeSize(indicator)),
                                       1, TypeBytes(2, FALSE), points, FALSE)
           /\ Len(blob) >= 21)
          => BoundaryParsed /\ decoded.points = Decoded3D(points, FALSE)

\* C20 as claimed, for the sequences of at least one point: decoding what a
\* conforming encoder wrote for a point sequence and has_z succeeds and yields
\* as many points in the same order, with the original X and Y, the original
\* Z with has_z and Z = 0 without.
C20_DecodeInvertsEncode ==
    \A has_z \in BOOLEAN, points \in PointSeqs :
        (pc # "p_boundaries" /\ Len(points) >= 1 /\ blob = Encode(points, has_z))
        => BoundaryParsed /\ decoded.points = Decoded3D(points, has_z)

\* Bit 31 of the WKB type whose 4 bytes start at p: the Z flag.
HasZ(data, p) == data[p + 3] >= 128

\* The bytes of a point of the WKB whose type starts at p.
PointSize(data, p) == IF HasZ(data, p) THEN 24 ELSE 16

\* C21 as claimed, for the blobs without envelope: a blob is accepted only if
\* the bytes after the point count are at least count * (24 with the Z flag,
\* 16 without); a failure returns no points, and the points returned are all
\* read from inside the blob.
C21_TruncatedFails ==
    /\ (BoundaryParsed /\ EnvelopeIndicator(blob) = 0) =>
           Len(blob) - 17 >= NumPoints(blob, 14) * PointSize(blob, 10)
    /\ pc = "failed" => decoded.points = <<>>
    /\ BoundaryParsed => 17 + 16 * Len(decoded.points) <= Len(blob)

\* The constructor of the parser has been left, by return or by exception.
Left == pc \in {"s_done", "failed"}

\* C22: no statement is finalized and no handle closed more often than it
\* was created, and once the constructor is left, by return or by an
\* exception at any query or row, every prepared statement has been
\* finalized, every handle closed, and none stays open.
C22_HandlesReleased ==
    /\ sqlite.finalizes <= sqlite.prepares
    /\ sqlite.closes <= sqlite.opens
    /\ Left =>
          /\ sqlite.finalizes = sqlite.prepares
          /\ sqlite.closes = sqlite.opens
          /\ sqlite.statements = 0
          /\ sqlite.handles = 0

\* A row of the fourth query made the constructor throw.
C22_Witness ==
    /\ pc = "failed"
    /\ query = 4
    /\ Len(step_log) = 2
    /\ sqlite.prepares = 4
    /\ sqlite.finalizes = 4
    /\ sqlite.closes = 1

\* C23 as claimed: with a file that cannot be opened, or a database that
\* lacks a table or a column of the schema, the constructor never returns
\* normally.
C23_BadDatabaseFails ==
    (database.kind # "sqlite" \/ database.missing # {}) => pc # "s_done"

\* C24: call k of Step() on a statement whose result has n rows returns
\* Row only for k <= n, with row k, and Done only for k = n + 1; SQLITE_ROW
\* is reported as Row, SQLITE_DONE as Done and every other code as an error.
C24_StepProtocol ==
    \A k \in 1..Len(step_log) :
        LET call == step_log[k]
        IN  /\ call.result = "Row" =>
                  call.rc = "SQLITE_ROW" /\ k <= sqlite.rows /\ call.row = k
            /\ call.result = "Done" =>
                  call.rc = "SQLITE_DONE" /\ k = sqlite.rows + 1
            /\ call.rc = "SQLITE_ROW" => call.result = "Row"
            /\ call.rc = "SQLITE_DONE" => call.result = "Done"
            /\ call.rc \notin {"SQLITE_ROW", "SQLITE_DONE"} => call.result = "Error"

\* A result of MaxRows rows was stepped to its end.
C24_Witness ==
    /\ pc = "s_leave"
    /\ sqlite.rows = MaxRows
    /\ Len(step_log) = MaxRows + 1
    /\ step_log[MaxRows + 1].result = "Done"

\* C25 as claimed: GetColumnText returns all the bytes of the column, an
\* embedded zero byte included, and the empty string for NULL.
C25_ColumnTextExact ==
    column.read =>
        column.text = (IF column.value.null THEN <<>> ELSE column.value.bytes)

\* The connections the edges of the lanes of junctions() stand for, each
\* with the lane and the map entry it comes from.
EdgeConnections ==
    UNION {{<<lane.id, "predecessor", peer,
              [from |-> lane.predecessors[peer], to |-> [lane_id |-> lane.id, end |-> "kStart"]]>> :
               peer \in DOMAIN lane.predecessors}
           \cup
           {<<lane.id, "successor", peer,
              [from |-> [lane_id |-> lane.id, end |-> "kFinish"], to |-> lane.successors[peer]]>> :
               peer \in DOMAIN lane.successors} : lane \in ExposedLanes}

\* The list was populated and is not yet sorted.
Populated == pc = "dedup"

\* C26: before the sort, every connection is in the list exactly as many
\* times as there are predecessor and successor edges of lanes of
\* junctions() that stand for it: from the peer end to (lane, Start) for a
\* predecessor, from (lane, Finish) to the peer end for a successor.
C26_ConnectionsFromEdges ==
    Populated =>
        \A c \in Range(connections_) \cup {e[4] : e \in EdgeConnections} :
            Cardinality({k \in DOMAIN connections_ : connections_[k] = c})
            = Cardinality({e \in EdgeConnections : e[4] = c})

\* Predecessor and successor edges were emitted, one connection twice.
C26_Witness ==
    /\ Populated
    /\ \E e \in EdgeConnections : e[2] = "predecessor"
    /\ \E e \in EdgeConnections : e[2] = "successor"
    /\ \E k1, k2 \in DOMAIN connections_ : k1 # k2 /\ connections_[k1] = connections_[k2]

\* C27 as claimed: a walk of the ordering pass stops before a lane that is
\* already placed, so it never places a lane twice and is over after as
\* many steps as the segment has lanes.
C27_WalkStopsAtPlacedLane ==
    /\ \A i, j \in DOMAIN ordered_lanes :
          i # j => ordered_lanes[i].id # ordered_lanes[j].id
    /\ reorder_seg # <<>> =>
          Len(ordered_lanes) <= Len(junctions_[reorder_seg[1]].segments[reorder_seg[2]].lanes)

\* C28 as claimed: the well-formed blob of 17 bytes, without envelope and
\* with a point count of 0, is accepted and decodes to no points, and so is
\* the same blob followed by up to three more bytes: no blob of 17 bytes or
\* more is rejected for its size.
C28_SeventeenBytesAccepted ==
    \A n \in 0..3 :
        (pc # "p_boundaries" /\ blob = Encode(<<>>, FALSE) \o Zeros(n))
        => BoundaryParsed /\ decoded.points = <<>>

\* Lines 97-129 with the branch points enumerated in the given order, from
\* the i-th on.
RECURSIVE ResolveBranchPoints(_, _, _, _)
ResolveBranchPoints(ls, tables, order, i) ==
    IF i > Len(order) THEN [ok |-> TRUE, lanes |-> ls]
    ELSE LET r == ConnectPairs(ls, SidePairs(tables[order[i]]), 1)
         IN  IF r.ok THEN ResolveBranchPoints(r.lanes, tables, order, i + 1) ELSE r

\* The same rows in every order.
RowOrders(rows) == {[k \in 1..Len(rows) |-> rows[p[k]]] : p \in Perms(1..Len(rows))}

\* The tables that hold, for every branch point, the same rows in some order.
TableOrders(tables) ==
    {t \in [DOMAIN tables -> UNION {RowOrders(tables[bp]) : bp \in DOMAIN tables}] :
        \A bp \in DOMAIN tables : t[bp] \in RowOrders(tables[bp])}

\* The connections of the lanes ids of ls, as a set.
ConnectionsOf(ls, ids) ==
    UNION {{[from |-> ls[id].predecessors[peer], to |-> [lane_id |-> id, end |-> "kStart"]] :
               peer \in DOMAIN ls[id].predecessors}
           \cup
           {[from |-> [lane_id |-> id, end |-> "kFinish"], to |-> ls[id].successors[peer]] :
               peer \in DOMAIN ls[id].successors} : id \in ids}

\* C29 as claimed: a construction over the same records with the branch
\* points and the rows of a branch point enumerated in another order gives
\* every lane of junctions() the same predecessor and successor entries and
\* gives the same connections.
C29_EnumerationOrderIrrelevant ==
    pc = "done" =>
        \A order \in Perms(DOMAIN gpkg_branch_points),
           tables \in TableOrders(gpkg_branch_points) :
            LET other == ResolveBranchPoints([l \in DOMAIN gpkg_lanes |-> BuildLane(l)],
                                             tables, order, 1)
            IN  /\ other.ok
                /\ \A lane \in ExposedLanes :
                      /\ other.lanes[lane.id].predecessors = lane.predecessors
                      /\ other.lanes[lane.id].successors = lane.successors
                /\ ConnectionsOf(other.lanes, ExposedIds) = Range(connections_)

\* C30 as claimed: once connections() is final, the lane at both ends of
\* every connection is a lane of some segment of some junction of
\* junctions().
C30_ConnectionsNameExposedLanes ==
    Completed =>
        \A k \in DOMAIN connections_ :
            /\ connections_[k].from.lane_id \in ExposedIds
            /\ connections_[k].to.lane_id \in ExposedIds

====
